---- MODULE Spec2Model ----
(***************************************************************************)
(* Model of scripts/merge_and_score.py: the fingerprint-keyed fold of      *)
(* finding records (initial_record / merge_record), the priority sort with *)
(* id assignment, and the score.                                           *)
(*                                                                         *)
(* Conventions.                                                            *)
(*  - A Python str is a sequence of one-character strings, so that strip,  *)
(*    lower, re.sub, split, join and the lexicographic order are computed  *)
(*    and not assumed.                                                     *)
(*  - A Python dict is a function whose DOMAIN is the set of keys present; *)
(*    an absent key is a key outside DOMAIN.                               *)
(*  - "line" is None (the empty tuple) or an int n (the tuple <<n>>).      *)
(*  - Scores and penalties are exact rationals: a penalty is counted in    *)
(*    units of 1/2000, a rounded score in units of 1/100.                  *)
(***************************************************************************)
EXTENDS Integers, Sequences, FiniteSets, TLC

VARIABLES loaded, idx, buckets, merged, scores, pc

vars == <<loaded, idx, buckets, merged, scores, pc>>

(***************************************************************************)
(* Characters and strings                                                  *)
(***************************************************************************)
Digits == <<"0", "1", "2", "3", "4", "5", "6", "7", "8", "9">>

UpperCase ==
  <<"A", "B", "C", "D", "E", "F", "G", "H", "I", "J", "K", "L", "M",
    "N", "O", "P", "Q", "R", "S", "T", "U", "V", "W", "X", "Y", "Z">>

LowerCase ==
  <<"a", "b", "c", "d", "e", "f", "g", "h", "i", "j", "k", "l", "m",
    "n", "o", "p", "q", "r", "s", "t", "u", "v", "w", "x", "y", "z">>

\* The characters of the model in code-point order (a subset of ASCII).
Ascii ==
  <<" ">> \o Digits \o <<":", ";">> \o UpperCase \o <<"_">> \o LowerCase \o <<"|">>

Range(s) == {s[i] : i \in DOMAIN s}

Chars == Range(Ascii)

Whitespace == {" "}

Code(c) == CHOOSE i \in DOMAIN Ascii : Ascii[i] = c

\* str.lower() on one character
LowerChar(c) ==
  IF c \in Range(UpperCase)
  THEN LowerCase[CHOOSE i \in DOMAIN UpperCase : UpperCase[i] = c]
  ELSE c

\* str.lower()
Lower(s) == [i \in DOMAIN s |-> LowerChar(s[i])]

RECURSIVE LStripChars(_, _)
LStripChars(s, cs) ==
  IF s # <<>> /\ Head(s) \in cs THEN LStripChars(Tail(s), cs) ELSE s

RECURSIVE RStripChars(_, _)
RStripChars(s, cs) ==
  IF s # <<>> /\ s[Len(s)] \in cs
  THEN RStripChars(SubSeq(s, 1, Len(s) - 1), cs)
  ELSE s

\* str.strip(chars)
StripChars(s, cs) == RStripChars(LStripChars(s, cs), cs)

\* str.strip()
Strip(s) == StripChars(s, Whitespace)

RECURSIVE DropWhileNotIn(_, _)
DropWhileNotIn(s, keep) ==
  IF s # <<>> /\ Head(s) \notin keep THEN DropWhileNotIn(Tail(s), keep) ELSE s

\* re.sub(r"[^keep]+", " ", s): every maximal run of characters outside keep
\* becomes one space.
RECURSIVE SubRuns(_, _)
SubRuns(s, keep) ==
  IF s = <<>> THEN <<>>
  ELSE IF Head(s) \in keep
       THEN <<Head(s)>> \o SubRuns(Tail(s), keep)
       ELSE <<" ">> \o SubRuns(DropWhileNotIn(Tail(s), keep), keep)

LowerAlnum == Range(LowerCase) \cup Range(Digits)

normalize_text(value) ==
  LET v1 == Lower(value)
      v2 == SubRuns(v1, LowerAlnum)
      v3 == Strip(SubRuns(v2, Chars \ Whitespace))
  IN  v3

IsPrefix(p, s) == Len(p) <= Len(s) /\ SubSeq(s, 1, Len(p)) = p

\* str.split(sep) for a non-empty sep
RECURSIVE SplitAcc(_, _, _)
SplitAcc(s, sep, cur) ==
  IF s = <<>> THEN <<cur>>
  ELSE IF IsPrefix(sep, s)
       THEN <<cur>> \o SplitAcc(SubSeq(s, Len(sep) + 1, Len(s)), sep, <<>>)
       ELSE SplitAcc(Tail(s), sep, Append(cur, Head(s)))

Split(s, sep) == SplitAcc(s, sep, <<>>)

\* sep.join(parts)
RECURSIVE Join(_, _)
Join(parts, sep) ==
  IF parts = <<>> THEN <<>>
  ELSE IF Len(parts) = 1 THEN parts[1]
       ELSE parts[1] \o sep \o Join(Tail(parts), sep)

\* the order of str: lexicographic by code point
RECURSIVE StrLess(_, _)
StrLess(a, b) ==
  IF b = <<>> THEN FALSE
  ELSE IF a = <<>> THEN TRUE
       ELSE IF Head(a) = Head(b) THEN StrLess(Tail(a), Tail(b))
            ELSE Code(Head(a)) < Code(Head(b))

\* sorted(set(xs)) for a list of strings
RECURSIVE SortedSet(_)
SortedSet(S) ==
  IF S = {} THEN <<>>
  ELSE LET m == CHOOSE x \in S : \A y \in S \ {x} : StrLess(x, y)
       IN  <<m>> \o SortedSet(S \ {m})

\* dict.get(key, default)
Get(d, k, default) == IF k \in DOMAIN d THEN d[k] ELSE default

None == <<>>

IsInt(x) == Len(x) = 1

(***************************************************************************)
(* String constants of the program                                         *)
(***************************************************************************)
T1 == <<"T", "1">>
T2 == <<"T", "2">>
T3 == <<"T", "3">>
T4 == <<"T", "4">>
high == <<"h", "i", "g", "h">>
med == <<"m", "e", "d">>
low == <<"l", "o", "w">>
open == <<"o", "p", "e", "n">>
fixed == <<"f", "i", "x", "e", "d">>
wontfix == <<"w", "o", "n", "t", "f", "i", "x">>
false_positive == <<"f", "a", "l", "s", "e", "_", "p", "o", "s", "i", "t", "i", "v", "e">>
pending == <<"p", "e", "n", "d", "i", "n", "g">>

\* the field names as they are printed in a conflict entry
FieldName ==
  [tier |-> <<"t", "i", "e", "r">>,
   severity |-> <<"s", "e", "v", "e", "r", "i", "t", "y">>,
   confidence |-> <<"c", "o", "n", "f", "i", "d", "e", "n", "c", "e">>,
   status |-> <<"s", "t", "a", "t", "u", "s">>]

FixDiffers == <<"r", "e", "c", "o", "m", "m", "e", "n", "d", "e", "d", "_", "f", "i", "x", " ", "d", "i", "f", "f", "e", "r", "s">>

TIER_WEIGHT == (T1 :> 20) @@ (T2 :> 10) @@ (T3 :> 4) @@ (T4 :> 1)

\* in tenths
SEVERITY_MULTIPLIER == (high :> 10) @@ (med :> 6) @@ (low :> 3)

\* in hundredths
CONFIDENCE_MULTIPLIER == (high :> 100) @@ (med :> 75) @@ (low :> 50)

SEVERITY_RANK == (high :> 3) @@ (med :> 2) @@ (low :> 1)

CONFIDENCE_RANK == (high :> 3) @@ (med :> 2) @@ (low :> 1)

TIER_RANK == (T1 :> 4) @@ (T2 :> 3) @@ (T3 :> 2) @@ (T4 :> 1)

RankTable == [tier |-> TIER_RANK, severity |-> SEVERITY_RANK, confidence |-> CONFIDENCE_RANK]

(***************************************************************************)
(* The fold                                                                *)
(***************************************************************************)
\* mutant: the incoming value always wins
stronger_LastWins(current, candidate, rank) == candidate

stronger(current, candidate, rank) ==
  IF Get(rank, candidate, 0) > Get(rank, current, 0) THEN candidate ELSE current

RECURSIVE UniqueParts(_, _)
UniqueParts(parts, seen) ==
  IF parts = <<>> THEN <<>>
  ELSE LET part == Strip(Head(parts))
       IN  IF part # <<>> /\ part \notin seen
           THEN <<part>> \o UniqueParts(Tail(parts), seen \cup {part})
           ELSE UniqueParts(Tail(parts), seen)

EvidenceSep == <<" ", "|", "|", " ">>

merge_evidence(old, new) ==
  Join(UniqueParts(Split(old, EvidenceSep) \o Split(new, EvidenceSep), {}), EvidenceSep)

normalized_fingerprint(record) ==
  LET detector == Strip(Get(record, "detector", <<>>))
      file_path == Strip(Get(record, "file", <<>>))
      summary == normalize_text(Get(record, "summary", <<>>))
  IN  detector \o <<"|">> \o file_path \o <<"|">> \o summary

initial_record(record) ==
  [id |-> IF Strip(Get(record, "id", <<>>)) # <<>>
          THEN Strip(Get(record, "id", <<>>)) ELSE pending,
   tier |-> Strip(Get(record, "tier", T4)),
   detector |-> Strip(Get(record, "detector", <<>>)),
   severity |-> Strip(Get(record, "severity", low)),
   file |-> Strip(Get(record, "file", <<>>)),
   line |-> Get(record, "line", None),
   summary |-> Strip(Get(record, "summary", <<>>)),
   evidence |-> Strip(Get(record, "evidence", <<>>)),
   recommended_fix |-> Strip(Get(record, "recommended_fix", <<>>)),
   confidence |-> Strip(Get(record, "confidence", low)),
   status |-> Strip(Get(record, "status", open)),
   conflict_note |-> Strip(Get(record, "conflict_note", <<>>)),
   needs_validation |-> Get(record, "needs_validation", FALSE),
   sources |-> <<Get(record, "_source", <<>>)>>]   \* the key "_sources"

\* the conflict entry of one rank field, or none
RankConflict(existing, candidate, field) ==
  LET old_value == existing[field]
      new_value == Strip(Get(candidate, field, old_value))
  IN  IF new_value # old_value
      THEN <<FieldName[field] \o <<":", " ">> \o old_value \o <<" ", "v", "s", " ">> \o new_value>>
      ELSE <<>>

RankMerged(existing, candidate, field) ==
  stronger(existing[field], Strip(Get(candidate, field, existing[field])), RankTable[field])

LineMerged(existing, candidate) ==
  LET new_line == Get(candidate, "line", None)
      old_line == existing.line
  IN  IF IsInt(new_line) /\ new_line[1] > 0
         /\ (old_line = None \/ (IsInt(old_line) /\ new_line[1] < old_line[1]))
      THEN new_line
      ELSE old_line

SummaryMerged(existing, candidate) ==
  LET new_summary == Strip(Get(candidate, "summary", <<>>))
  IN  IF Len(new_summary) > Len(existing.summary) THEN new_summary ELSE existing.summary

FixConflict(existing, candidate) ==
  LET new_fix == Strip(Get(candidate, "recommended_fix", <<>>))
  IN  IF new_fix # <<>> /\ new_fix # existing.recommended_fix THEN <<FixDiffers>> ELSE <<>>

FixMerged(existing, candidate) ==
  LET new_fix == Strip(Get(candidate, "recommended_fix", <<>>))
      old_fix == existing.recommended_fix
  IN  IF new_fix # <<>> /\ new_fix # old_fix /\ Len(new_fix) > Len(old_fix)
      THEN new_fix
      ELSE old_fix

\* mutant: a differing status is not recorded as a conflict
StatusConflict_Dropped(existing, candidate) == <<>>

StatusConflict(existing, candidate) ==
  LET new_status == Strip(Get(candidate, "status", open))
  IN  IF new_status # existing.status
      THEN <<FieldName["status"] \o <<":", " ">> \o existing.status \o <<" ", "v", "s", " ">> \o new_status>>
      ELSE <<>>

\* mutant: the incoming status always wins
StatusMerged_LastWins(existing, candidate) == Strip(Get(candidate, "status", open))

StatusMerged(existing, candidate) ==
  LET new_status == Strip(Get(candidate, "status", open))
  IN  IF new_status # existing.status
      THEN IF open \in {existing.status, new_status} THEN open ELSE existing.status
      ELSE existing.status

NoteMerged(merged_note, conflicts) ==
  LET detail == Join(SortedSet(Range(conflicts)), <<";", " ">>)
  IN  IF merged_note # <<>>
      THEN Strip(StripChars(merged_note \o <<";", " ">> \o detail, {";", " "}))
      ELSE detail

merge_record(existing, candidate) ==
  LET conflicts == RankConflict(existing, candidate, "tier")
                   \o RankConflict(existing, candidate, "severity")
                   \o RankConflict(existing, candidate, "confidence")
                   \o FixConflict(existing, candidate)
                   \o StatusConflict(existing, candidate)
  IN  [existing EXCEPT
         !.tier = RankMerged(existing, candidate, "tier"),
         !.severity = RankMerged(existing, candidate, "severity"),
         !.confidence = RankMerged(existing, candidate, "confidence"),
         !.line = LineMerged(existing, candidate),
         !.summary = SummaryMerged(existing, candidate),
         !.evidence = merge_evidence(@, Strip(Get(candidate, "evidence", <<>>))),
         !.recommended_fix = FixMerged(existing, candidate),
         !.status = StatusMerged(existing, candidate),
         !.needs_validation =
            @ \/ Get(candidate, "needs_validation", FALSE) \/ conflicts # <<>>,
         !.conflict_note = IF conflicts # <<>> THEN NoteMerged(@, conflicts) ELSE @,
         !.sources = Append(@, Get(candidate, "_source", <<>>))]

\* buckets is the dict of main in insertion order: a sequence of
\* [key |-> fingerprint, rec |-> merged record] with pairwise distinct keys.
HasKey(bk, key) == \E i \in DOMAIN bk : bk[i].key = key

KeyIndex(bk, key) == CHOOSE i \in DOMAIN bk : bk[i].key = key

\* a loop that would assign the dict entry anew on a known fingerprint, and so
\* forget the earlier contributors
FoldStep_Overwrite(bk, record) ==
  LET key == normalized_fingerprint(record)
  IN  IF ~HasKey(bk, key)
      THEN Append(bk, [key |-> key, rec |-> initial_record(record)])
      ELSE [bk EXCEPT ![KeyIndex(bk, key)].rec = initial_record(record)]

\* one iteration of the loop of main
FoldStep(bk, record) ==
  LET key == normalized_fingerprint(record)
  IN  IF ~HasKey(bk, key)
      THEN Append(bk, [key |-> key, rec |-> initial_record(record)])
      ELSE [bk EXCEPT ![KeyIndex(bk, key)].rec = merge_record(@, record)]

RECURSIVE FoldAll(_, _)
FoldAll(bk, records) ==
  IF records = <<>> THEN bk ELSE FoldAll(FoldStep(bk, Head(records)), Tail(records))

(***************************************************************************)
(* Penalty, priority order, score                                          *)
(***************************************************************************)
\* in thousandths
penalty(record) ==
  Get(TIER_WEIGHT, record.tier, 1)
  * Get(SEVERITY_MULTIPLIER, record.severity, 3)
  * Get(CONFIDENCE_MULTIPLIER, record.confidence, 50)

priority_sort_key(record) ==
  <<0 - Get(TIER_WEIGHT, record.tier, 1),
    0 - Get(SEVERITY_RANK, record.severity, 1),
    0 - Get(CONFIDENCE_RANK, record.confidence, 1),
    0 - penalty(record),
    record.file,
    IF IsInt(record.line) THEN record.line[1] ELSE 1000000000>>

\* the order of the key tuples: component 5 is a str, the others are numbers
RECURSIVE TupleLess(_, _, _)
TupleLess(a, b, i) ==
  IF i > Len(a) THEN FALSE
  ELSE IF a[i] = b[i] THEN TupleLess(a, b, i + 1)
       ELSE IF i = 5 THEN StrLess(a[i], b[i]) ELSE a[i] < b[i]

KeyLess(r1, r2) == TupleLess(priority_sort_key(r1), priority_sort_key(r2), 1)

\* list.sort(key=priority_sort_key) is stable: an entry goes behind every entry
\* before it whose key is not greater.
RECURSIVE InsertSorted(_, _)
InsertSorted(sorted, e) ==
  IF sorted = <<>> THEN <<e>>
  ELSE IF KeyLess(e.rec, Head(sorted).rec) THEN <<e>> \o sorted
       ELSE <<Head(sorted)>> \o InsertSorted(Tail(sorted), e)

RECURSIVE SortEntries(_, _)
SortEntries(sorted, rest) ==
  IF rest = <<>> THEN sorted
  ELSE SortEntries(InsertSorted(sorted, Head(rest)), Tail(rest))

\* f"F{idx:03d}" for idx < 1000
FormatId(i) ==
  <<"F", Digits[((i \div 100) % 10) + 1], Digits[((i \div 10) % 10) + 1], Digits[(i % 10) + 1]>>

\* merged = list(buckets.values()); merged.sort(...); ids by position.
\* The entries keep their fingerprint beside the record.
SortAndNumber(bk) ==
  LET sorted == SortEntries(<<>>, bk)
  IN  [i \in DOMAIN sorted |-> [sorted[i] EXCEPT !.rec.id = FormatId(i)]]

RECURSIVE SumPenalty(_, _)
SumPenalty(records, statuses) ==
  IF records = <<>> THEN 0
  ELSE (IF Head(records).status \in statuses THEN penalty(Head(records)) ELSE 0)
       + SumPenalty(Tail(records), statuses)

Max(a, b) == IF a >= b THEN a ELSE b

Min(a, b) == IF a <= b THEN a ELSE b

AllStatuses(records) == {records[i].status : i \in DOMAIN records}

\* mutant: wontfix records count in full
unrounded_score_FullWontfix(records) ==
  LET strict_penalty == SumPenalty(records, AllStatuses(records))
      open_penalty == SumPenalty(records, {open, wontfix})
  IN  [strict_score |-> Max(0, Min(200000, 200000 - 2 * strict_penalty)),
       overall_score |-> Max(0, Min(200000, 200000 - 2 * open_penalty))]

\* mutant: no lower clamp
unrounded_score_NoFloor(records) ==
  LET strict_penalty == SumPenalty(records, AllStatuses(records))
      open_penalty == SumPenalty(records, {open})
      wontfix_penalty == SumPenalty(records, {wontfix})
  IN  [strict_score |-> Min(200000, 200000 - 2 * strict_penalty),
       overall_score |-> Min(200000, 200000 - (2 * open_penalty + wontfix_penalty))]

\* the two scores before round(), in units of 1/2000
unrounded_score(records) ==
  LET strict_penalty == SumPenalty(records, AllStatuses(records))
      open_penalty == SumPenalty(records, {open})
      wontfix_penalty == SumPenalty(records, {wontfix})
  IN  [strict_score |-> Max(0, Min(200000, 200000 - 2 * strict_penalty)),
       overall_score |-> Max(0, Min(200000, 200000 - (2 * open_penalty + wontfix_penalty)))]

\* round(x, 2), x in units of 1/2000, the results in hundredths. Python rounds
\* the binary float: where the exact value lies halfway between two hundredths
\* the float lies on either side, so both neighbours are possible results.
Round2(x) ==
  IF x % 20 < 10 THEN {x \div 20}
  ELSE IF x % 20 > 10 THEN {(x \div 20) + 1}
       ELSE {x \div 20, (x \div 20) + 1}

\* the possible results of score(records), in hundredths
score(records) ==
  LET u == unrounded_score(records)
  IN  {[overall_score |-> o, strict_score |-> st] :
         o \in Round2(u.overall_score), st \in Round2(u.strict_score)}

Records(entries) == [i \in DOMAIN entries |-> entries[i].rec]

(***************************************************************************)
(* Inputs                                                                  *)
(***************************************************************************)
\* the longest input of the mixed families
MaxRecords == 3

\* the length of the inputs of distinct findings
ManyRecords == 7

With(r, k, v) == (k :> v) @@ r

Without(r, ks) == [k \in DOMAIN r \ ks |-> r[k]]

\* a record the validator accepts
Base ==
  [id |-> <<"x">>, tier |-> T3, detector |-> <<"d">>, severity |-> med,
   file |-> <<"a">>, line |-> None, summary |-> <<"s">>, evidence |-> <<"e">>,
   recommended_fix |-> <<"r">>, confidence |-> med, status |-> open,
   conflict_note |-> <<>>, needs_validation |-> FALSE]

\* rank fields: valid, padded, unrecognized and absent values
RankPool ==
  {With(With(Base, "tier", t), "severity", s) :
     t \in {T1, <<" ", "T", "2">>, <<"T", "X">>}, s \in {high, low}}
  \cup {Without(With(Base, "confidence", high), {"tier"}),
        Without(Base, {"severity", "confidence"})}

\* statuses over two findings
StatusPool ==
  {With(With(Base, "status", st), "file", f) :
     st \in {open, fixed, wontfix}, f \in {<<"a">>, <<"b">>}}
  \cup {Without(Base, {"status"}), With(Base, "status", false_positive)}

\* line numbers over two findings of one file
LinePool ==
  {With(With(Base, "line", l), "summary", sm) :
     l \in {None, <<0 - 1>>, <<2>>, <<5>>}, sm \in {<<"s">>, <<"t">>}}

\* free texts, the validation flag and the conflict note
TextPool ==
  {With(With(With(Base, "recommended_fix", fx), "needs_validation", nv[1]),
        "conflict_note", nv[2]) :
     fx \in {<<>>, <<"r">>, <<"q", "q">>}, nv \in {<<FALSE, <<>> >>, <<TRUE, <<"n">> >>}}
  \cup {With(With(Base, "summary", <<"S">>), "evidence", <<"f">>),
        With(Without(Base, {"recommended_fix"}), "evidence", <<"f", " ", "|", "|", " ", "e">>)}

\* detector, file and summary spellings
FingerprintPool ==
  {With(Base, "file", <<" ", "a">>),
   With(With(Base, "detector", <<"d", "|", "a">>), "file", <<"b">>),
   With(Base, "file", <<"a", "|", "b">>),
   With(Base, "summary", <<"S", ";">>),
   With(Base, "summary", <<"t">>),
   With(Base, "detector", <<"e">>),
   Base}

Pools == {RankPool, StatusPool, LinePool, TextPool, FingerprintPool}

MixedInputs == UNION {[1..n -> pool] : n \in 0..MaxRecords, pool \in Pools}

ManyPool ==
  {With(With(With(Base, "tier", T1), "severity", high), "confidence", high),
   With(With(With(Base, "tier", T4), "severity", low), "status", wontfix)}

\* findings of pairwise distinct files
ManyInputs ==
  UNION {{[i \in 1..n |-> With(prof[i], "file", <<LowerCase[i]>>)] :
            prof \in [1..n -> ManyPool]} : n \in 1..ManyRecords}

\* load_findings tags every record with its source; here every record comes
\* from a file of its own.
Source(i) == <<"f", Digits[i + 1]>>

Tagged(records) == [i \in DOMAIN records |-> With(records[i], "_source", Source(i))]

NoScores == [overall_score |-> 0 - 1, strict_score |-> 0 - 1]

(***************************************************************************)
(* main                                                                    *)
(***************************************************************************)
Init ==
  /\ loaded \in {Tagged(x) : x \in MixedInputs \cup ManyInputs}
  /\ idx = 0
  /\ buckets = <<>>
  /\ merged = <<>>
  /\ scores = NoScores
  /\ pc = "fold"

\* a loop iteration that sees a new fingerprint
FoldNew ==
  /\ pc = "fold"
  /\ idx < Len(loaded)
  /\ ~HasKey(buckets, normalized_fingerprint(loaded[idx + 1]))
  /\ buckets' = FoldStep(buckets, loaded[idx + 1])
  /\ idx' = idx + 1
  /\ UNCHANGED <<loaded, merged, scores, pc>>

\* a loop iteration that sees a known fingerprint
FoldMerge ==
  /\ pc = "fold"
  /\ idx < Len(loaded)
  /\ HasKey(buckets, normalized_fingerprint(loaded[idx + 1]))
  /\ buckets' = FoldStep(buckets, loaded[idx + 1])
  /\ idx' = idx + 1
  /\ UNCHANGED <<loaded, merged, scores, pc>>

\* the id of the sorted entry of a fingerprint
IdOf(entries, key) == entries[KeyIndex(entries, key)].rec.id

\* the sort and the ids; the list holds the dict's own records, so the ids
\* show in buckets as well
Sort ==
  /\ pc = "fold"
  /\ idx = Len(loaded)
  /\ merged' = SortAndNumber(buckets)
  /\ buckets' = [i \in DOMAIN buckets |->
                   [buckets[i] EXCEPT !.rec.id = IdOf(merged', buckets[i].key)]]
  /\ pc' = "report"
  /\ UNCHANGED <<loaded, idx, scores>>

Report ==
  /\ pc = "report"
  /\ \E sc \in score(Records(merged)) : scores' = sc
  /\ pc' = "done"
  /\ UNCHANGED <<loaded, idx, buckets, merged>>

Next == FoldNew \/ FoldMerge \/ Sort \/ Report

Spec == Init /\ [][Next]_vars

\* findings of pairwise distinct summaries that differ in one part of the
\* priority key: tier, severity, confidence, file, line (none, small, beyond
\* the 10**9 that stands for no line)
OrderPool ==
  {With(With(Base, "summary", <<"a">>), "tier", T1),
   With(With(With(Base, "summary", <<"b">>), "severity", high), "line", <<2>>),
   With(With(With(Base, "summary", <<"c">>), "confidence", high), "line", <<2>>),
   With(With(With(Base, "summary", <<"d">>), "file", <<"b">>), "line", <<2>>),
   With(With(Base, "summary", <<"e">>), "line", <<5>>),
   With(With(Base, "summary", <<"f">>), "line", <<2>>),
   With(With(Base, "summary", <<"g">>), "line", <<1000000001>>),
   With(With(Base, "summary", <<"h">>), "tier", <<"T", "X">>),
   With(Base, "summary", <<"i">>)}

OrderInputs == UNION {[1..n -> OrderPool] : n \in 0..MaxRecords}

InitOrder ==
  /\ loaded \in {Tagged(x) : x \in OrderInputs}
  /\ idx = 0
  /\ buckets = <<>>
  /\ merged = <<>>
  /\ scores = NoScores
  /\ pc = "fold"

\* main over inputs that exercise the priority order
SpecOrder == InitOrder /\ [][Next]_vars

(***************************************************************************)
(* Vocabulary of the properties                                            *)
(***************************************************************************)
\* the input records that went into a merged entry: those whose source is in
\* its list of origins (every record has a source of its own)
Contributors(e) ==
  {i \in 1..idx : loaded[i]["_source"] \in Range(e.rec.sources)}

Entries == Range(buckets)

Keys(entries) == {entries[i].key : i \in DOMAIN entries}

RecOf(entries, key) == entries[KeyIndex(entries, key)].rec

\* the input in another order
Permuted(p) == [i \in DOMAIN loaded |-> loaded[p[i]]]

Orders == Permutations(DOMAIN loaded)

\* the whole merge of main on a list of records
RunOf(records) == SortAndNumber(FoldAll(<<>>, records))

ContentFields ==
  {"tier", "severity", "confidence", "line", "summary", "evidence",
   "recommended_fix", "status", "conflict_note", "needs_validation"}

SameContents(a, b) ==
  /\ Keys(a) = Keys(b)
  /\ \A k \in Keys(a) : \A f \in ContentFields : RecOf(a, k)[f] = RecOf(b, k)[f]

\* C1: for a fixed multiset of input records every order of folding yields the
\* same merged set: per fingerprint, every field but the id is the same.
C1_OrderIndependentContents ==
  pc = "done" => \A p \in Orders : SameContents(merged, RunOf(Permuted(p)))

\* the scores of two merged sets can agree: some rounding of the one is a
\* rounding of the other
ScoresAgree(a, b) == score(Records(a)) \cap score(Records(b)) # {}

\* C2: for a fixed multiset of input records overall_score and strict_score are
\* the same for every order of folding.
C2_OrderIndependentScores ==
  pc = "done" => \A p \in Orders : ScoresAgree(merged, RunOf(Permuted(p)))

\* two folded records lie in the same merged finding
SameFinding(i, j) == \E e \in Entries : {i, j} \subseteq Contributors(e)

SameTriple(r1, r2) ==
  /\ Get(r1, "detector", <<>>) = Get(r2, "detector", <<>>)
  /\ Get(r1, "file", <<>>) = Get(r2, "file", <<>>)
  /\ normalize_text(Get(r1, "summary", <<>>)) = normalize_text(Get(r2, "summary", <<>>))

\* C3: two folded records are in the same merged finding if and only if their
\* detector, their file and their normalized summary are identical; the
\* fingerprints of the merged set are pairwise distinct.
C3_DedupIffSameTriple ==
  /\ \A i, j \in 1..idx : SameFinding(i, j) <=> SameTriple(loaded[i], loaded[j])
  /\ \A m, n \in DOMAIN buckets : buckets[m].key = buckets[n].key => m = n

RankFields == {"tier", "severity", "confidence"}

\* the orders the properties speak of, weakest first; a value that is absent
\* or not recognized stands for the documented default, the weakest
Strength ==
  [tier |-> <<T4, T3, T2, T1>>,
   severity |-> <<low, med, high>>,
   confidence |-> <<low, med, high>>]

StrengthOf(f, v) ==
  IF \E n \in DOMAIN Strength[f] : Strength[f][n] = v
  THEN CHOOSE n \in DOMAIN Strength[f] : Strength[f][n] = v
  ELSE 1

\* the strength a folded record brings for a rank field (surrounding blanks ignored)
Contributed(f, i) ==
  IF f \in DOMAIN loaded[i] THEN StrengthOf(f, Strip(loaded[i][f])) ELSE 1

MaxOf(S) == CHOOSE m \in S : \A x \in S : x <= m

MinOf(S) == CHOOSE m \in S : \A x \in S : m <= x

StrongestSoFar ==
  \A e \in Entries : \A f \in RankFields :
    StrengthOf(f, e.rec[f]) = MaxOf({Contributed(f, i) : i \in Contributors(e)})

NeverWeakens ==
  \A n \in DOMAIN buckets : \A f \in RankFields :
    /\ n \in DOMAIN buckets'
    /\ buckets'[n].key = buckets[n].key
    /\ StrengthOf(f, buckets'[n].rec[f]) >= StrengthOf(f, buckets[n].rec[f])

\* C4: after every fold the tier, severity and confidence of each merged
\* finding have the greatest rank among the records folded into it so far, and
\* no step lowers the rank of any of the three.
C4_MonotonicStrengthening == [](StrongestSoFar) /\ [][NeverWeakens]_vars

\* C4 witness: a weaker tier was folded into a finding that keeps the stronger one
C4_Witness ==
  \E e \in Entries : \E i, j \in Contributors(e) :
    /\ i < j
    /\ Contributed("tier", i) > Contributed("tier", j)
    /\ StrengthOf("tier", e.rec.tier) = Contributed("tier", i)

\* the documented defaults of the reconciled fields
Default ==
  [tier |-> T4, severity |-> low, confidence |-> low,
   recommended_fix |-> <<>>, status |-> open]

\* the value a folded record has for a field, surrounding blanks ignored
Value(i, f) == Strip(Get(loaded[i], f, Default[f]))

Flagged(e) == e.rec.needs_validation /\ e.rec.conflict_note # <<>>

Disagree(i, j) ==
  \/ \E f \in RankFields :
       /\ f \in DOMAIN loaded[i]
       /\ f \in DOMAIN loaded[j]
       /\ Value(i, f) # Value(j, f)
  \/ /\ Value(i, "recommended_fix") # <<>>
     /\ Value(j, "recommended_fix") # <<>>
     /\ Value(i, "recommended_fix") # Value(j, "recommended_fix")
  \/ Value(i, "status") # Value(j, "status")

OpenDominates ==
  \A e \in Entries :
    (\E i \in Contributors(e) : Value(i, "status") = open) => e.rec.status = open

OpenStaysOpen ==
  \A n \in DOMAIN buckets :
    buckets[n].rec.status = open =>
      /\ n \in DOMAIN buckets'
      /\ buckets'[n].key = buckets[n].key
      /\ buckets'[n].rec.status = open

\* C6: a merged finding one of whose contributors is open is open, and a merged
\* finding that is open stays open in every later step.
C6_OpenDominates == [](OpenDominates) /\ [][OpenStaysOpen]_vars

\* C6 witness: a closed record was folded after an open one and the finding is open
C6_Witness ==
  /\ pc = "done"
  /\ \E e \in Entries : \E i, j \in Contributors(e) :
       /\ i < j
       /\ Value(i, "status") = open
       /\ Value(j, "status") = fixed
       /\ e.rec.status = open

\* the weights of the score formula: tier weight, severity multiplier in
\* tenths, confidence multiplier in hundredths, by strength
FormulaWeight ==
  [tier |-> <<1, 4, 10, 20>>,
   severity |-> <<3, 6, 10>>,
   confidence |-> <<50, 75, 100>>]

\* the penalty of the formula, in thousandths
FormulaPenalty(r) ==
  FormulaWeight["tier"][StrengthOf("tier", r.tier)]
  * FormulaWeight["severity"][StrengthOf("severity", r.severity)]
  * FormulaWeight["confidence"][StrengthOf("confidence", r.confidence)]

RECURSIVE FormulaSum(_, _)
FormulaSum(S, weight) ==
  IF S = {} THEN 0
  ELSE LET n == CHOOSE x \in S : TRUE
       IN  weight * FormulaPenalty(merged[n].rec) + FormulaSum(S \ {n}, weight)

WithStatus(st) == {n \in DOMAIN merged : merged[n].rec.status = st}

Clamp(x) == IF x < 0 THEN 0 ELSE IF x > 200000 THEN 200000 ELSE x

\* the two scores of the formula, in units of 1/2000
FormulaStrict == Clamp(200000 - FormulaSum(DOMAIN merged, 2))

FormulaOverall ==
  Clamp(200000 - (FormulaSum(WithStatus(open), 2) + FormulaSum(WithStatus(wontfix), 1)))

SingleT1HighHighOpen ==
  /\ Len(merged) = 1
  /\ merged[1].rec.tier = T1
  /\ merged[1].rec.severity = high
  /\ merged[1].rec.confidence = high
  /\ merged[1].rec.status = open

Scenario80 ==
  SingleT1HighHighOpen => scores.strict_score = 8000 /\ scores.overall_score = 8000

\* C7 as stated: strict_score is 100 less the penalties of all merged records,
\* overall_score is 100 less the penalties of the open records and half the
\* penalties of the wontfix records, both clamped; one open T1/high/high record
\* gives 80.0 twice.
C7_ScoreFormula ==
  pc = "done" =>
    /\ 20 * scores.strict_score = FormulaStrict
    /\ 20 * scores.overall_score = FormulaOverall
    /\ Scenario80

Near(score100, exact2000) ==
  /\ 20 * score100 - exact2000 <= 10
  /\ exact2000 - 20 * score100 <= 10

\* C7 amended: each score is the value of the formula rounded to two decimal
\* places.
C7_ScoreFormulaRounded ==
  pc = "done" =>
    /\ Near(scores.strict_score, FormulaStrict)
    /\ Near(scores.overall_score, FormulaOverall)
    /\ Scenario80

\* C7 witness: a report over a wontfix and a fixed record, discounted in the
\* overall score only
C7_Witness ==
  /\ pc = "done"
  /\ WithStatus(wontfix) # {}
  /\ WithStatus(fixed) # {}
  /\ scores.overall_score > scores.strict_score

\* C8: both scores lie in [0, 100].
C8_ScoreBounds ==
  pc = "done" =>
    /\ scores.strict_score \in 0..10000
    /\ scores.overall_score \in 0..10000

\* C8 witness: the penalties exceed 100 and the strict score is 0
C8_Witness ==
  /\ pc = "done"
  /\ FormulaSum(DOMAIN merged, 1) > 100000
  /\ scores.strict_score = 0

PositiveLines(e) ==
  {Get(loaded[i], "line", None)[1] :
     i \in {c \in Contributors(e) :
              /\ IsInt(Get(loaded[c], "line", None))
              /\ Get(loaded[c], "line", None)[1] > 0}}

\* C9: the line of a merged finding is the smallest positive line among its
\* contributors, and absent when no contributor has a positive line.
C9_SmallestPositiveLine ==
  \A e \in Entries :
    e.rec.line = IF PositiveLines(e) = {} THEN None ELSE <<MinOf(PositiveLines(e))>>

\* C10: every merged finding gets the same id under every order of the input
\* records.
C10_IdsOrderIndependent ==
  pc = "done" =>
    \A p \in Orders :
      /\ Keys(RunOf(Permuted(p))) = Keys(merged)
      /\ \A k \in Keys(merged) : IdOf(RunOf(Permuted(p)), k) = IdOf(merged, k)


\* r1 comes strictly before r2 in the priority order: tier weight, severity
\* rank and confidence rank descending, penalty descending, file ascending,
\* line ascending with no line behind every line
RECURSIVE LexLess(_, _)
LexLess(a, b) ==
  IF a = <<>> THEN FALSE
  ELSE IF Head(a) # Head(b) THEN Head(a) < Head(b) ELSE LexLess(Tail(a), Tail(b))

Descending(r) ==
  <<0 - FormulaWeight["tier"][StrengthOf("tier", r.tier)],
    0 - StrengthOf("severity", r.severity),
    0 - StrengthOf("confidence", r.confidence),
    0 - FormulaPenalty(r)>>

LineBefore(l1, l2) ==
  /\ IsInt(l1)
  /\ (IsInt(l2) => l1[1] < l2[1])

PriorityBefore(r1, r2) ==
  \/ LexLess(Descending(r1), Descending(r2))
  \/ /\ Descending(r1) = Descending(r2)
     /\ \/ StrLess(r1.file, r2.file)
        \/ r1.file = r2.file /\ LineBefore(r1.line, r2.line)

\* C11: the report lists the findings in the priority order (tier, severity,
\* confidence, penalty, file, line, a finding with no line behind every finding
\* with a line), and the ids F001, F002, ... follow the positions.
C11_PriorityOrder ==
  pc \in {"report", "done"} =>
    /\ \A m, n \in DOMAIN merged :
         m < n => ~PriorityBefore(merged[n].rec, merged[m].rec)
    /\ \A m, n \in DOMAIN merged :
         m < n => StrLess(merged[m].rec.id, merged[n].rec.id)
    /\ merged # <<>> => merged[1].rec.id = <<"F", "0", "0", "1">>

\* the origins list of the finding of a fingerprint, empty before the finding
\* exists
OriginsOf(bk, key) == IF HasKey(bk, key) THEN RecOf(bk, key).sources ELSE <<>>

RECURSIVE SumOrigins(_)
SumOrigins(bk) ==
  IF bk = <<>> THEN 0 ELSE Len(Head(bk).rec.sources) + SumOrigins(Tail(bk))

DistinctFingerprints ==
  \A i, j \in 1..idx :
    i # j => normalized_fingerprint(loaded[i]) # normalized_fingerprint(loaded[j])

\* what the folds done so far have kept
NothingLost ==
  /\ SumOrigins(buckets) = idx
  /\ Len(buckets) <= idx
  /\ Len(buckets) = idx => DistinctFingerprints

\* a fold adds the folded record's origin to one finding and leaves every
\* other finding as it was
OneOriginPerFold ==
  idx' = idx + 1 =>
    \E k \in Keys(buckets') :
      /\ OriginsOf(buckets', k) = Append(OriginsOf(buckets, k), loaded[idx + 1]["_source"])
      /\ Keys(buckets') = Keys(buckets) \cup {k}
      /\ \A k2 \in Keys(buckets') \ {k} : RecOf(buckets', k2) = RecOf(buckets, k2)

\* C12: no record is lost: every fold adds exactly one entry to the origins
\* list of exactly one merged finding and changes no other finding; the
\* origins lists together are as long as the number of records folded, and
\* the merged set is at most that large, equal only when the fingerprints of
\* the folded records are pairwise distinct.
C12_NoRecordLost == []NothingLost /\ [][OneOriginPerFold]_vars

\* three records folded into two findings, one of them of two origins
C12_Witness ==
  /\ pc = "fold"
  /\ idx = 3
  /\ Len(buckets) = 2
  /\ \E e \in Entries : Len(e.rec.sources) = 2

\* C13: a missing or unrecognized tier, severity, confidence or status of an
\* input record is replaced by its default (T4, low, low, open), for the first
\* record of a fingerprint and for a later one: in every merged finding the
\* tier is one of T1..T4, severity and confidence are one of high, med, low,
\* and the status is one of open, fixed, wontfix, false_positive.
C13_FieldDefaulting ==
  \A e \in Entries :
    /\ e.rec.tier \in {T1, T2, T3, T4}
    /\ e.rec.severity \in {high, med, low}
    /\ e.rec.confidence \in {high, med, low}
    /\ e.rec.status \in {open, fixed, wontfix, false_positive}

\* the entries of a conflict note, the parts between the "; " that join them:
\* where the entries start, and the entry that starts at a position
EntryStarts(note) ==
  {1} \cup {i + 2 : i \in {j \in 1..(Len(note) - 1) : note[j] = ";" /\ note[j + 1] = " "}}

EntryAt(note, start) ==
  LET ends == {i \in start..(Len(note) + 1) : i = Len(note) + 1 \/ (i + 2) \in EntryStarts(note)}
  IN  SubSeq(note, start, MinOf(ends) - 1)

\* no entry occurs twice in the note
NoRepeat(note) ==
  \A i, j \in EntryStarts(note) : i # j => EntryAt(note, i) # EntryAt(note, j)

\* the record that seeded a merged finding
Seed(e) == CHOOSE i \in Contributors(e) : loaded[i]["_source"] = e.rec.sources[1]

\* some fold into the finding recorded a conflict: its conflict note is no
\* longer the one it was seeded with
RecordedConflict(e) ==
  e.rec.conflict_note # Strip(Get(loaded[Seed(e)], "conflict_note", <<>>))

\* C14: when a fold records a conflict the merged finding needs validation,
\* and the conflict entries are appended to the conflict note joined by
\* semicolons and without duplicates: after any sequence of folds no conflict
\* entry occurs more than once in the conflict note of a merged finding.
C14_ConflictNoteDeduplicated ==
  \A e \in Entries :
    /\ RecordedConflict(e) => e.rec.needs_validation
    /\ NoRepeat(e.rec.conflict_note)

\* the rule of validate_record: a record that needs validation has a conflict
\* note
NoteRule(record) ==
  Get(record, "needs_validation", FALSE) => Strip(Get(record, "conflict_note", <<>>)) # <<>>

\* C15: when every input record obeys the rule that needs_validation requires
\* a conflict note, every merged finding that needs validation has a
\* non-empty conflict note after any sequence of folds, also when the flag
\* comes from a later contributor's own needs_validation.
C15_NoteRulePreserved ==
  (\A i \in DOMAIN loaded : NoteRule(loaded[i])) =>
    \A e \in Entries : e.rec.needs_validation => e.rec.conflict_note # <<>>

====
